---------------------------- MODULE Spec2Model ----------------------------
(* A model of osg-comanage-project-usermap.py.                             *)
(*                                                                         *)
(* Text is modelled as a sequence of one-character strings, a Python dict  *)
(* as the sequence of its items in insertion order (records [k, v] with    *)
(* distinct k), a Python list as a sequence.                               *)
EXTENDS Integers, Sequences, FiniteSets, TLC

\* ------------------------------------------------------------------ bounds
MaxUsers == 2        \* identities in one directory result, or in one map
                     \* handed to print_usermap_to_file on its own
MaxLines == 2        \* lines in one local map file
MaxLocalMaps == 1    \* files named by options.localmaps
MaxCalls == 3        \* consecutive calls of get_co_api_data
TickSeconds == 900   \* seconds that pass in one step of the clock
MaxNow == 3600       \* the clock stops here

\* ------------------------------------------------ characters and strings
Range(s) == {s[i] : i \in DOMAIN s}

\* str.isspace() on one character of the alphabet used here
isspace(c) == c \in {" ", "\t", "\n"}

\* code points, the order Python compares strings by
ord(c) ==
  CASE c = "\t" -> 9
    [] c = "\n" -> 10
    [] c = " " -> 32
    [] c = "*" -> 42
    [] c = "," -> 44
    [] c = "a" -> 97
    [] c = "b" -> 98

RECURSIVE str_lt(_, _)
\* a < b on Python strings
str_lt(a, b) ==
  IF b = <<>> THEN FALSE
  ELSE IF a = <<>> THEN TRUE
  ELSE IF Head(a) = Head(b) THEN str_lt(Tail(a), Tail(b))
  ELSE ord(Head(a)) < ord(Head(b))

RECURSIVE lstrip(_)
lstrip(s) ==
  IF s = <<>> THEN s
  ELSE IF isspace(Head(s)) THEN lstrip(Tail(s)) ELSE s

RECURSIVE rstrip(_)
rstrip(s) ==
  IF s = <<>> THEN s
  ELSE IF isspace(s[Len(s)]) THEN rstrip(SubSeq(s, 1, Len(s) - 1)) ELSE s

\* str.strip()
strip(s) == rstrip(lstrip(s))

RECURSIVE WordLen(_)
\* length of the leading run of non-whitespace characters
WordLen(s) ==
  IF s = <<>> \/ isspace(Head(s)) THEN 0 ELSE 1 + WordLen(Tail(s))

RECURSIVE split(_, _)
\* str.split(maxsplit=n) with the default separator: runs of whitespace
\* separate the fields, leading whitespace is skipped, and once maxsplit
\* splits are done the rest of the string is the last field
split(s, maxsplit) ==
  LET t == lstrip(s) IN
  IF t = <<>> THEN <<>>
  ELSE IF maxsplit = 0 THEN <<t>>
  ELSE LET n == WordLen(t)
       IN <<SubSeq(t, 1, n)>> \o split(SubSeq(t, n + 1, Len(t)), maxsplit - 1)

issep(c) == c \in {" ", ","}

RECURSIVE TokLen(_)
\* length of the leading run of characters that are neither space nor comma
TokLen(s) ==
  IF s = <<>> \/ issep(Head(s)) THEN 0 ELSE 1 + TokLen(Tail(s))

RECURSIVE DropSeps(_)
DropSeps(s) ==
  IF s = <<>> THEN s
  ELSE IF issep(Head(s)) THEN DropSeps(Tail(s)) ELSE s

RECURSIVE re_split(_)
\* re.split(r'[ ,]+', s): a separator at either end yields an empty string
re_split(s) ==
  LET n == TokLen(s) IN
  IF n = Len(s) THEN <<s>>
  ELSE <<SubSeq(s, 1, n)>> \o re_split(DropSeps(SubSeq(s, n + 1, Len(s))))

RECURSIVE join_nosep(_, _)
join_nosep(sep, items) ==
  IF items = <<>> THEN <<>> ELSE items[1] \o join_nosep(sep, Tail(items))

RECURSIVE join(_, _)
\* sep.join(items)
join(sep, items) ==
  IF items = <<>> THEN <<>>
  ELSE IF Len(items) = 1 THEN items[1]
  ELSE items[1] \o sep \o join(sep, Tail(items))

RECURSIVE LineLen(_)
\* length of the first line of a text, its newline included
LineLen(s) ==
  IF s = <<>> THEN 0
  ELSE IF Head(s) = "\n" THEN 1 ELSE 1 + LineLen(Tail(s))

RECURSIVE readlines(_)
\* iteration over a text file: the lines, each with its newline
readlines(text) ==
  IF text = <<>> THEN <<>>
  ELSE LET n == LineLen(text)
       IN <<SubSeq(text, 1, n)>> \o readlines(SubSeq(text, n + 1, Len(text)))

\* ------------------------------------------------------------------ dicts
keys(d) == {d[i].k : i \in DOMAIN d}

getitem(d, key) == d[CHOOSE i \in DOMAIN d : d[i].k = key].v

\* d[key] = value: an existing key keeps its position
setitem(d, key, value) ==
  IF key \in keys(d)
  THEN [i \in DOMAIN d |-> IF d[i].k = key THEN [k |-> key, v |-> value] ELSE d[i]]
  ELSE Append(d, [k |-> key, v |-> value])

IsDict(d) == \A i, j \in DOMAIN d : d[i].k = d[j].k => i = j


\* -------------------------------------------------------- the program
\* what a call does: returns a value or raises an exception
Return(value) == [raised |-> "", value |-> value]
Raise(exception) == [raised |-> exception, value |-> <<>>]

\* usage(msg): the message if any, the usage text, then sys.exit() with no
\* argument, which ends the process with status 0
usage(msg) ==
  [stderr |-> (IF msg = "" THEN <<>> ELSE <<msg>>) \o <<"_usage">>, status |-> 0]

\* the handler of the last lines: sys.exit(e) prints e and ends with status 1
sys_exit_exception(e) == [stderr |-> <<e>>, status |-> 1]

\* parse_options(args). args describes the command line and the credential
\* sources: getopt_ok, extra (arguments left over), help (-h given), c_int
\* (the -c argument is an integer), outfile (-o given), nlocalmaps (files
\* named by -l), pass (a password is found). The result is either the exit
\* of usage(), an exception, or the options.
parse_options(args) ==
  IF ~args.getopt_ok THEN [kind |-> "exit", exit |-> usage("")]
  ELSE IF args.extra THEN [kind |-> "exit", exit |-> usage("Extra arguments")]
  ELSE IF args.help THEN [kind |-> "exit", exit |-> usage("")]
  ELSE IF ~args.c_int THEN [kind |-> "raise", raised |-> "ValueError"]
  ELSE IF ~args.pass THEN [kind |-> "exit", exit |-> usage("PASS required")]
  ELSE [kind |-> "return",
        options |-> [outfile |-> args.outfile, nlocalmaps |-> args.nlocalmaps]]

RECURSIVE _deduplicate_list(_)
\* list(dict.fromkeys(items)): the first occurrence of each item, in order
_deduplicate_list(items) ==
  IF items = <<>> THEN <<>>
  ELSE LET front == _deduplicate_list(SubSeq(items, 1, Len(items) - 1))
           last == items[Len(items)]
       IN IF last \in Range(front) THEN front ELSE Append(front, last)

get_osguser_groups_nofilter(ldap, topology) ==
  IF ~ldap.ok THEN Raise("LDAPError")
  ELSE IF ~topology.ok THEN Raise("RequestException")
  ELSE Return(ldap.data)

\* get_osguser_groups: ldap and topology are the answers of the directory
\* and of the project registry, [ok, data]; a failed fetch raises
get_osguser_groups(ldap, topology) ==
  IF ~ldap.ok THEN Raise("LDAPError")
  ELSE IF ~topology.ok THEN Raise("RequestException")
  ELSE LET ldap_users == ldap.data
           project_names == topology.data
       IN Return([i \in DOMAIN ldap_users |->
                    [k |-> ldap_users[i].k,
                     v |-> SelectSeq(ldap_users[i].v, LAMBDA p : p \in project_names)]])

\* the body of the loop of parse_localmap, for one line
parse_line(user_groupmap, line) ==
  LET split_line == split(strip(line), 2) IN
  IF split_line = <<>> THEN Raise("IndexError")      \* split_line[0]
  ELSE IF split_line[1] = <<"*">> /\ Len(split_line) = 3
  THEN LET line_groups == re_split(split_line[3])
           user == split_line[2]
       IN IF user \in keys(user_groupmap)
          THEN Return(setitem(user_groupmap, user,
                 _deduplicate_list(getitem(user_groupmap, user) \o line_groups)))
          ELSE Return(setitem(user_groupmap, user, line_groups))
  ELSE Return(user_groupmap)

RECURSIVE parse_lines(_, _)
parse_lines(lines, user_groupmap) ==
  IF lines = <<>> THEN Return(user_groupmap)
  ELSE LET r == parse_line(user_groupmap, Head(lines))
       IN IF r.raised # "" THEN r ELSE parse_lines(Tail(lines), r.value)

parse_localmap_swallow(inputfile) ==
  IF ~inputfile.exists THEN Return(<<>>)
  ELSE parse_lines(readlines(inputfile.text), <<>>)

\* parse_localmap(inputfile): inputfile is the file at that path,
\* [exists, text]
parse_localmap(inputfile) ==
  IF ~inputfile.exists THEN Raise("FileNotFoundError")
  ELSE parse_lines(readlines(inputfile.text), <<>>)

RECURSIVE merge_one(_, _)
\* the inner loop of merge_maps over the items of one map
merge_one(merged_map, projectmap) ==
  IF projectmap = <<>> THEN merged_map
  ELSE LET key == projectmap[1].k
           new == IF key \in keys(merged_map)
                  THEN setitem(merged_map, key,
                         _deduplicate_list(getitem(merged_map, key) \o projectmap[1].v))
                  ELSE setitem(merged_map, key, projectmap[1].v)
       IN merge_one(new, Tail(projectmap))

RECURSIVE merge_from(_, _)
merge_from(merged_map, maps) ==
  IF maps = <<>> THEN merged_map
  ELSE merge_from(merge_one(merged_map, Head(maps)), Tail(maps))

merge_maps(maps) == merge_from(<<>>, maps)

RECURSIVE sorted(_)
\* sorted(d.items()): the keys of a dict are distinct, so the key decides
sorted(items) ==
  IF items = <<>> THEN <<>>
  ELSE LET i == CHOOSE i \in DOMAIN items :
                  \A j \in DOMAIN items : ~str_lt(items[j].k, items[i].k)
       IN <<items[i]>> \o
          sorted(SubSeq(items, 1, i - 1) \o SubSeq(items, i + 1, Len(items)))

\* "* {} {}".format(osguser, ",".join(group.strip() for group in groups))
\* and the newline print() adds
format_line(osguser, groups) ==
  <<"*", " ">> \o osguser \o <<" ">>
    \o join(<<",">>, [i \in DOMAIN groups |-> strip(groups[i])]) \o <<"\n">>

RECURSIVE print_items(_)
print_items(items) ==
  IF items = <<>> THEN <<>>
  ELSE format_line(items[1].k, items[1].v) \o print_items(Tail(items))

print_usermap_to_file_unsorted(osguser_groups) == print_items(osguser_groups)

\* print_usermap_to_file: the text written to the file
print_usermap_to_file(osguser_groups) == print_items(sorted(osguser_groups))

print_usermap_skip_empty(osguser_groups, outfile, files) ==
  IF osguser_groups = <<>> THEN files
  ELSE IF outfile
  THEN [files EXCEPT !.outfile = print_usermap_to_file(osguser_groups), !.opens = @ + 1]
  ELSE [files EXCEPT !.stdout = @ \o print_usermap_to_file(osguser_groups)]

\* print_usermap: files is [outfile, stdout, opens], the content of the
\* output file, what was written to stdout, and how often the output file
\* was opened for writing; open(.., "w") truncates
print_usermap(osguser_groups, outfile, files) ==
  IF outfile
  THEN [files EXCEPT !.outfile = print_usermap_to_file(osguser_groups), !.opens = @ + 1]
  ELSE [files EXCEPT !.stdout = @ \o print_usermap_to_file(osguser_groups)]


\* ------------------------------------------------------ the environment
\* identities and group names
Users == {<<"a">>, <<"b">>, <<"a", "b">>}
GroupNames == {<<"a">>, <<"b">>}

\* the dicts of at most n items with keys in K and values in V
Dicts(K, V, n) ==
  UNION {{d \in [1..m -> [k : K, v : V]] : IsDict(d)} : m \in 0..n}

\* the group lists of a directory entry: each group once
LdapLists == {<<>>, <<<<"a">>>>, <<<<"b">>>>, <<<<"a">>, <<"b">>>>, <<<<"b">>, <<"a">>>>}

\* what utils.get_ldap_active_users_and_groups answers
LdapAnswers ==
  {[ok |-> FALSE, data |-> <<>>]}
    \cup {[ok |-> TRUE, data |-> d] : d \in Dicts(Users, LdapLists, MaxUsers)}

\* what requests.get(".../miscproject/json").json().keys() answers
TopologyAnswers ==
  {[ok |-> FALSE, data |-> {}]} \cup {[ok |-> TRUE, data |-> A] : A \in SUBSET GroupNames}

\* lines of a local map file, without their newline
LocalLines ==
  { <<>>,                                          \* blank
    <<" ", "\t">>,                                 \* whitespace only
    <<"*">>,                                       \* the marker alone
    <<"*", " ", "a">>,                             \* two fields
    <<"b", " ", "a", " ", "a">>,                   \* wrong marker
    <<"*", " ", "a", " ", "b", ",", "b">>,         \* a group twice
    <<"*", " ", "b", " ", "a", ",", " ", "b">>,
    <<" ", "*", "\t", "a", " ", "b", ",", "\t", "a">> }

RECURSIVE unlines(_)
\* the text of a file made of these lines
unlines(lines) ==
  IF lines = <<>> THEN <<>> ELSE Head(lines) \o <<"\n">> \o unlines(Tail(lines))

LocalTexts == {unlines(ls) : ls \in UNION {[1..n -> LocalLines] : n \in 0..MaxLines}}

\* the file a path of options.localmaps names
LocalFiles ==
  {[exists |-> FALSE, text |-> <<>>]} \cup {[exists |-> TRUE, text |-> t] : t \in LocalTexts}

\* what reading one local map file can come to: whether the file is there,
\* and what parse_localmap does with it
LocalReads == {[exists |-> f.exists, result |-> parse_localmap(f)] : f \in LocalFiles}

\* command lines and credential sources
Args ==
  [getopt_ok : BOOLEAN, extra : BOOLEAN, help : BOOLEAN, c_int : BOOLEAN,
   pass : BOOLEAN, outfile : BOOLEAN, nlocalmaps : 0..MaxLocalMaps]

\* the output file before the run: the output of an earlier run
PreviousOutput == <<"*", " ", "a", " ", "a", "\n">>

\* ---------------------------------------------------------- the state
VARIABLES
  pc,                     \* where main is
  args,                   \* the command line of the run
  options,                \* the global options object
  file,                   \* the file handed to parse_localmap
  project_names,          \* the project names fetched in this run
  maps,                   \* maps of main
  osguser_groups_merged,  \* osguser_groups_merged of main
  files,                  \* output file, stdout, opens of the output file
  before,                 \* the output file when the run started
  stderr,                 \* what was written to stderr
  exitStatus,             \* the exit status, -1 while the process runs
  failed,                 \* the external reads that failed in this run
  fetches,                \* directory and registry fetches made
  cache,                  \* the file CACHE_FILENAME: [exists, readable, text]
  now,                    \* time.time(), in seconds
  calls,                  \* calls of get_co_api_data made
  call                    \* the last call of get_co_api_data

cacheVars == <<cache, now, calls, call>>

vars == <<pc, args, options, file, project_names, maps, osguser_groups_merged,
          files, before, stderr, exitStatus, failed, fetches, cacheVars>>

NoCall ==
  [done |-> FALSE, before |-> [exists |-> FALSE, readable |-> FALSE, text |-> <<>>],
   at |-> 0, api |-> [ok |-> FALSE, data |-> <<>>], raised |-> "", value |-> <<>>,
   live |-> FALSE]

\* main never calls get_co_api_data: the cache file is absent and stays so
InitNoCache ==
  /\ cache = [exists |-> FALSE, readable |-> FALSE, text |-> <<>>]
  /\ now = 0
  /\ calls = 0
  /\ call = NoCall

NoArgs ==
  [getopt_ok |-> TRUE, extra |-> FALSE, help |-> FALSE, c_int |-> TRUE,
   pass |-> TRUE, outfile |-> FALSE, nlocalmaps |-> 0]

InitCommon ==
  /\ args = NoArgs
  /\ options = [outfile |-> FALSE, nlocalmaps |-> 0]
  /\ file = [exists |-> TRUE, text |-> <<>>]
  /\ project_names = {}
  /\ maps = <<>>
  /\ osguser_groups_merged = <<>>
  /\ stderr = <<>>
  /\ exitStatus = -1
  /\ failed = {}
  /\ fetches = 0

Init ==
  /\ pc = "parse_options"
  /\ InitCommon
  /\ InitNoCache
  /\ before = PreviousOutput
  /\ files = [outfile |-> before, stdout |-> <<>>, opens |-> 0]

\* the process ends: e is what sys.exit() got
Exit(e) ==
  /\ pc' = "exit"
  /\ stderr' = stderr \o e.stderr
  /\ exitStatus' = e.status

\* main: parse_options(args)
ParseOptions ==
  /\ pc = "parse_options"
  /\ \E a \in Args :
       LET r == parse_options(a) IN
       /\ args' = a
       /\ IF r.kind = "return"
          THEN /\ options' = r.options
               /\ pc' = "get_osguser_groups"
               /\ UNCHANGED <<stderr, exitStatus>>
          ELSE /\ Exit(IF r.kind = "exit" THEN r.exit ELSE sys_exit_exception(r.raised))
               /\ UNCHANGED options
  /\ UNCHANGED <<file, project_names, maps, osguser_groups_merged, files, before,
                 failed, fetches, cacheVars>>

\* main: osguser_groups = get_osguser_groups(options.filtergrp); maps = [osguser_groups]
GetOsguserGroups ==
  /\ pc = "get_osguser_groups"
  /\ \E ldap \in LdapAnswers, topology \in TopologyAnswers :
       LET r == get_osguser_groups(ldap, topology) IN
       /\ fetches' = fetches + (IF ldap.ok THEN 2 ELSE 1)
       /\ failed' = failed \cup (IF ~ldap.ok THEN {"directory"}
                                 ELSE IF ~topology.ok THEN {"projects"} ELSE {})
       /\ project_names' = IF ldap.ok /\ topology.ok THEN topology.data ELSE project_names
       /\ IF r.raised = ""
          THEN /\ maps' = <<r.value>>
               /\ pc' = "parse_localmap"
               /\ UNCHANGED <<stderr, exitStatus>>
          ELSE /\ Exit(sys_exit_exception(r.raised))
               /\ UNCHANGED maps
  /\ UNCHANGED <<args, options, file, osguser_groups_merged, files, before, cacheVars>>

\* main: one turn of the loop, maps.append(parse_localmap(localmap))
ParseLocalmap ==
  /\ pc = "parse_localmap"
  /\ Len(maps) - 1 < options.nlocalmaps
  /\ \E read \in LocalReads :
       LET r == read.result IN
       /\ failed' = failed \cup (IF read.exists THEN {} ELSE {"localmap"})
       /\ IF r.raised = ""
          THEN /\ maps' = Append(maps, r.value)
               /\ UNCHANGED <<pc, stderr, exitStatus>>
          ELSE /\ Exit(sys_exit_exception(r.raised))
               /\ UNCHANGED maps
  /\ UNCHANGED <<args, options, file, project_names, osguser_groups_merged, files,
                 before, fetches, cacheVars>>

\* main: osguser_groups_merged = merge_maps(maps)
MergeMaps ==
  /\ pc = "parse_localmap"
  /\ Len(maps) - 1 = options.nlocalmaps
  /\ osguser_groups_merged' = merge_maps(maps)
  /\ pc' = "print_usermap"
  /\ UNCHANGED <<args, options, file, project_names, maps, files, before, stderr,
                 exitStatus, failed, fetches, cacheVars>>

\* main: print_usermap(osguser_groups_merged), and the process ends
PrintUsermap ==
  /\ pc = "print_usermap"
  /\ files' = print_usermap(osguser_groups_merged, options.outfile, files)
  /\ pc' = "done"
  /\ exitStatus' = 0
  /\ UNCHANGED <<args, options, file, project_names, maps, osguser_groups_merged,
                 before, stderr, failed, fetches, cacheVars>>

Next == ParseOptions \/ GetOsguserGroups \/ ParseLocalmap \/ MergeMaps \/ PrintUsermap

Spec == Init /\ [][Next]_vars


\* ------------------------------------- parse_localmap on its own
InitParse ==
  /\ pc = "call_parse_localmap"
  /\ args = NoArgs
  /\ options = [outfile |-> FALSE, nlocalmaps |-> 1]
  /\ file \in LocalFiles
  /\ project_names = {}
  /\ maps = <<>>
  /\ osguser_groups_merged = <<>>
  /\ stderr = <<>>
  /\ exitStatus = -1
  /\ failed = {}
  /\ fetches = 0
  /\ before = <<>>
  /\ files = [outfile |-> <<>>, stdout |-> <<>>, opens |-> 0]
  /\ InitNoCache

\* parse_localmap(file) returns or raises
CallParseLocalmap ==
  /\ pc = "call_parse_localmap"
  /\ LET r == parse_localmap(file) IN
     /\ pc' = IF r.raised = "" THEN "returned" ELSE "raised"
     /\ maps' = IF r.raised = "" THEN <<r.value>> ELSE maps
     /\ stderr' = IF r.raised = "" THEN stderr ELSE <<r.raised>>
  /\ UNCHANGED <<args, options, file, project_names, osguser_groups_merged, files,
                 before, exitStatus, failed, fetches, cacheVars>>

NextParse == CallParseLocalmap

SpecParse == InitParse /\ [][NextParse]_vars

\* ------------------- print_usermap_to_file, and parse_localmap of its text
PrintUsers == {<<"a">>, <<"b">>, <<"a", "b">>, <<>>}
PrintLists ==
  { <<<<"a">>>>, <<<<"b">>>>, <<<<"a">>, <<"b">>>>, <<<<"b">>, <<"a">>>>,
    <<<<"a">>, <<"a">>>>, <<<<"\t", "a">>, <<"b">>>>, <<>> }

InitPrint ==
  /\ pc = "call_print_usermap_to_file"
  /\ args = NoArgs
  /\ options = [outfile |-> TRUE, nlocalmaps |-> 0]
  /\ file = [exists |-> TRUE, text |-> <<>>]
  /\ project_names = {}
  /\ maps = <<>>
  /\ osguser_groups_merged \in Dicts(PrintUsers, PrintLists, MaxUsers)
  /\ stderr = <<>>
  /\ exitStatus = -1
  /\ failed = {}
  /\ fetches = 0
  /\ before = <<>>
  /\ files = [outfile |-> <<>>, stdout |-> <<>>, opens |-> 0]
  /\ InitNoCache

\* print_usermap_to_file(osguser_groups_merged, w), w a file opened for writing
CallPrintUsermapToFile ==
  /\ pc = "call_print_usermap_to_file"
  /\ files' = [files EXCEPT !.outfile = print_usermap_to_file(osguser_groups_merged),
                            !.opens = @ + 1]
  /\ file' = [exists |-> TRUE, text |-> files'.outfile]
  /\ pc' = "printed"
  /\ UNCHANGED <<args, options, project_names, maps, osguser_groups_merged, before,
                 stderr, exitStatus, failed, fetches, cacheVars>>

\* parse_localmap of the file just written
CallParseLocalmapBack ==
  /\ pc = "printed"
  /\ LET r == parse_localmap(file) IN
     /\ pc' = IF r.raised = "" THEN "parsed_back" ELSE "raised_back"
     /\ maps' = IF r.raised = "" THEN <<r.value>> ELSE maps
     /\ stderr' = IF r.raised = "" THEN stderr ELSE <<r.raised>>
  /\ UNCHANGED <<args, options, file, project_names, osguser_groups_merged, files,
                 before, exitStatus, failed, fetches, cacheVars>>

NextPrint == CallPrintUsermapToFile \/ CallParseLocalmapBack

SpecPrint == InitPrint /\ [][NextPrint]_vars


\* ------------------------------------------------ get_co_api_data
DigitChars == <<"0", "1", "2", "3", "4", "5", "6", "7", "8", "9">>
IsDigit(c) == c \in Range(DigitChars)
DigitVal(c) == (CHOOSE i \in DOMAIN DigitChars : DigitChars[i] = c) - 1

RECURSIVE str(_)
\* str(n) of a natural number
str(n) ==
  IF n < 10 THEN <<DigitChars[n + 1]>>
  ELSE str(n \div 10) \o <<DigitChars[(n % 10) + 1]>>

RECURSIVE DigitsVal(_)
DigitsVal(s) ==
  IF s = <<>> THEN 0 ELSE 10 * DigitsVal(SubSeq(s, 1, Len(s) - 1)) + DigitVal(s[Len(s)])

\* float(s) and int(s) on the alphabet used here (digits, ":", letters,
\* whitespace): surrounding whitespace is ignored, a non-empty run of
\* digits is a number, anything else raises ValueError
number(s) ==
  LET t == strip(s) IN
  IF t # <<>> /\ \A i \in DOMAIN t : IsDigit(t[i])
  THEN Return(DigitsVal(t)) ELSE Raise("ValueError")

float(s) == number(s)
int(s) == number(s)

RECURSIVE ColonLen(_)
ColonLen(s) == IF s = <<>> \/ Head(s) = ":" THEN 0 ELSE 1 + ColonLen(Tail(s))

RECURSIVE split_colon(_)
\* s.split(":")
split_colon(s) ==
  LET n == ColonLen(s) IN
  IF n = Len(s) THEN <<s>>
  ELSE <<SubSeq(s, 1, n)>> \o split_colon(SubSeq(s, n + 2, Len(s)))

\* 60 * 60 * CACHE_LIFETIME_HOURS
CacheLifetime == (60 * 60) \div 2

RECURSIVE read_entries(_, _)
\* the loop over the entries of a fresh cache
read_entries(entries, project_osggids_to_name) ==
  IF entries = <<>> THEN Return(project_osggids_to_name)
  ELSE LET osggid_name_pair == split_colon(Head(entries)) IN
       IF Len(osggid_name_pair) = 2
       THEN LET id == int(osggid_name_pair[1]) IN
            IF id.raised # "" THEN id
            ELSE read_entries(Tail(entries),
                   setitem(project_osggids_to_name, id.value, strip(osggid_name_pair[2])))
       ELSE read_entries(Tail(entries), project_osggids_to_name)

RECURSIVE entry_lines(_)
\* print(f"{osggid}:{name}", file=w) for each item
entry_lines(items) ==
  IF items = <<>> THEN <<>>
  ELSE items[1].k \o <<":">> \o items[1].v \o <<"\n">> \o entry_lines(Tail(items))

\* the except branch: the cache is opened for writing, which empties it,
\* then the registry is asked (api is its answer, [ok, data]) and the
\* time and the entries are written
refresh(c, t, api) ==
  LET opened == [exists |-> TRUE, readable |-> IF c.exists THEN c.readable ELSE TRUE,
                 text |-> <<>>] IN
  IF ~api.ok
  THEN [raised |-> "HTTPError", value |-> <<>>, cache |-> opened, live |-> TRUE]
  ELSE [raised |-> "", value |-> api.data, live |-> TRUE,
        cache |-> [opened EXCEPT !.text = str(t) \o <<"\n">> \o entry_lines(api.data)]]

\* get_co_api_data(): c is the cache file, t the time; the result is what
\* the call raises or returns, the cache file after it, and whether the
\* registry was asked
get_co_api_data(c, t, api) ==
  IF ~c.exists \/ ~c.readable THEN refresh(c, t, api)          \* open() raises OSError
  ELSE LET lines == readlines(c.text) IN
       IF lines = <<>>
       THEN [raised |-> "IndexError", value |-> <<>>, cache |-> c, live |-> FALSE]
       ELSE LET stamp == float(lines[1]) IN
            IF stamp.raised # ""
            THEN [raised |-> stamp.raised, value |-> <<>>, cache |-> c, live |-> FALSE]
            ELSE IF stamp.value >= t - CacheLifetime
            THEN LET r == read_entries(Tail(lines), <<>>)
                 IN [raised |-> r.raised, value |-> r.value, cache |-> c, live |-> FALSE]
            ELSE refresh(c, t, api)                             \* raise OSError

\* what the registry answers: identifiers come as strings
ApiAnswers ==
  { [ok |-> FALSE, data |-> <<>>],
    [ok |-> TRUE, data |-> <<>>],
    [ok |-> TRUE, data |-> <<[k |-> <<"7">>, v |-> <<"a">>]>>],
    [ok |-> TRUE, data |-> <<[k |-> <<"7">>, v |-> <<"a">>], [k |-> <<"1", "2">>, v |-> <<"b">>]>>] }

\* the cache file before the first call
CacheTexts ==
  { <<>>,                                              \* empty
    <<"0", "\n">>,                                     \* a time, no entries
    <<"0", "\n", "7", ":", "a", "\n">>,
    <<"0", "\n", "7", ":", "a", "\n", "7", "\n">>,     \* an entry without colon
    <<"x", "\n", "7", ":", "a", "\n">>,                \* first line not a number
    <<"\n", "7", ":", "a", "\n">>,                     \* first line blank
    <<"0", "\n", "x", ":", "a", "\n">> }               \* identifier not an integer

CacheFiles ==
  {[exists |-> FALSE, readable |-> FALSE, text |-> <<>>]}
    \cup {[exists |-> TRUE, readable |-> r, text |-> t] : r \in BOOLEAN, t \in CacheTexts}

InitCache ==
  /\ pc = "cache"
  /\ InitCommon
  /\ before = <<>>
  /\ files = [outfile |-> <<>>, stdout |-> <<>>, opens |-> 0]
  /\ cache \in CacheFiles
  /\ now = 0
  /\ calls = 0
  /\ call = NoCall

mainVars == <<pc, args, options, file, project_names, maps, osguser_groups_merged,
              files, before, stderr, exitStatus, failed, fetches>>

\* one call of get_co_api_data, with the registry answering api
GetCoApiData ==
  /\ calls < MaxCalls
  /\ \E api \in ApiAnswers :
       LET r == get_co_api_data(cache, now, api) IN
       /\ cache' = r.cache
       /\ call' = [done |-> TRUE, before |-> cache, at |-> now, api |-> api,
                   raised |-> r.raised, value |-> r.value, live |-> r.live]
  /\ calls' = calls + 1
  /\ UNCHANGED <<now, mainVars>>

\* time passes
Tick ==
  /\ now + TickSeconds <= MaxNow
  /\ now' = now + TickSeconds
  /\ UNCHANGED <<cache, calls, call, mainVars>>

NextCache == GetCoApiData \/ Tick

SpecCache == InitCache /\ [][NextCache]_vars


\* =============================================================== claims
Groups(m) == UNION {Range(m[i].v) : i \in DOMAIN m}
MergedComputed == pc \in {"print_usermap", "done"}
NoDuplicates(list) == \A i, j \in DOMAIN list : list[i] = list[j] => i = j

\* the first occurrence of every element of s, in the order of s
FirstOccurrences(s) ==
  LET F[i \in 0..Len(s)] ==
        IF i = 0 THEN <<>>
        ELSE IF \E j \in 1..(i - 1) : s[j] = s[i] THEN F[i - 1] ELSE Append(F[i - 1], s[i])
  IN F[Len(s)]

RECURSIVE ConcatLists(_, _)
\* the lists of identity u in the maps ms, one after the other
ConcatLists(ms, u) ==
  IF ms = <<>> THEN <<>>
  ELSE (IF u \in keys(Head(ms)) THEN getitem(Head(ms), u) ELSE <<>>)
         \o ConcatLists(Tail(ms), u)

\* C1 as stated: every group name of the merged membership map handed to
\* print_usermap is in the project-name set fetched in the run, the groups
\* that local maps contribute included.
C1_MergedGroupsAuthoritative ==
  MergedComputed => Groups(osguser_groups_merged) \subseteq project_names

\* C1 amended: every group name of the directory-derived map is in the
\* project-name set fetched in the run, and every group name of the merged
\* map is in that set or comes from a local map, which is merged unfiltered.
C1_DirectoryGroupsAuthoritative ==
  /\ (pc \in {"parse_localmap", "print_usermap", "done"}
        => Groups(maps[1]) \subseteq project_names)
  /\ (MergedComputed
        => Groups(osguser_groups_merged) \subseteq
             (project_names \cup UNION {Groups(maps[i]) : i \in 2..Len(maps)}))

C1_Witness ==
  /\ pc = "done"
  /\ Groups(maps[1]) # {}
  /\ ~(Groups(osguser_groups_merged) \subseteq project_names)

\* C2: merge_maps folds left to right: the merged map has the identities of
\* all the maps, and the list of each is the concatenation of its lists in
\* the maps, in sequence order, with every later duplicate dropped.
C2_MergeIsFirstOccurrences ==
  MergedComputed =>
    /\ keys(osguser_groups_merged) = UNION {keys(maps[i]) : i \in DOMAIN maps}
    /\ \A u \in keys(osguser_groups_merged) :
         getitem(osguser_groups_merged, u) = FirstOccurrences(ConcatLists(maps, u))

\* C3: in the final membership map no identity's list holds a group twice.
C3_NoDuplicateGroups ==
  MergedComputed =>
    \A i \in DOMAIN osguser_groups_merged : NoDuplicates(osguser_groups_merged[i].v)

\* C4: when the directory fetch, the project-name fetch or the read of a
\* local map file fails, the run ends with a fatal error and the output is
\* neither opened nor written; the output file is opened only after the
\* fetches and every parse_localmap call succeeded.
C4_FailureLeavesOutput ==
  /\ (failed # {} =>
        /\ pc = "exit"
        /\ exitStatus = 1
        /\ files = [outfile |-> before, stdout |-> <<>>, opens |-> 0])
  /\ (files.opens > 0 =>
        /\ failed = {}
        /\ fetches = 2
        /\ Len(maps) = 1 + options.nlocalmaps)

C4_Witness ==
  /\ pc = "exit"
  /\ failed = {"localmap"}
  /\ options.outfile
  /\ files.outfile = before

\* the default of the minimum number of identities the spec gives
DefaultMinUsers == 100

\* the text the run emitted
Emitted == IF options.outfile THEN files.outfile ELSE files.stdout
NumLines(text) == Cardinality({i \in DOMAIN text : text[i] = "\n"})

\* C5 as stated: a run whose merged map has fewer identities than the
\* threshold (100 by default) aborts with a fatal error and writes nothing;
\* a run with at least that many emits the mapping.
C5_SanityGate ==
  /\ (MergedComputed /\ Len(osguser_groups_merged) < DefaultMinUsers =>
        /\ pc # "done"
        /\ files = [outfile |-> before, stdout |-> <<>>, opens |-> 0])
  /\ (pc = "done" /\ Len(osguser_groups_merged) >= DefaultMinUsers =>
        NumLines(Emitted) = Len(osguser_groups_merged))

\* C5 amended: main has no sanity gate: a run whose fetches and local map
\* reads succeed emits the mapping whatever the number of identities, zero
\* included, and ends with status 0; with -o the output file is opened and
\* overwritten.
C5_NoSanityGate ==
  pc = "done" =>
    /\ exitStatus = 0
    /\ NumLines(Emitted) = Len(osguser_groups_merged)
    /\ (options.outfile => files.opens = 1)
    /\ (options.outfile /\ osguser_groups_merged = <<>> => files.outfile = <<>>)

C5_Witness ==
  /\ pc = "done"
  /\ osguser_groups_merged = <<>>
  /\ options.outfile
  /\ before # <<>>
  /\ files.outfile = <<>>

\* C8: when the credential lookup of parse_options raises PermissionError,
\* the usage text is printed and the process ends with a non-zero status
\* before any fetch.
PermissionErrorRaised ==
  args.getopt_ok /\ ~args.extra /\ ~args.help /\ args.c_int /\ ~args.pass

C8_MissingCredentials ==
  (pc = "exit" /\ PermissionErrorRaised) =>
    /\ "_usage" \in Range(stderr)
    /\ exitStatus # 0
    /\ fetches = 0

\* the permutations of 1..n
Perms(n) == {p \in [1..n -> 1..n] : \A i, j \in 1..n : p[i] = p[j] => i = j}
Permuted(m, p) == [i \in 1..Len(m) |-> m[p[i]]]

RECURSIVE Concat(_)
Concat(ss) == IF ss = <<>> THEN <<>> ELSE Head(ss) \o Concat(Tail(ss))

\* the line of one identity: marker, identity, its groups in list order,
\* each trimmed, with commas between them
ExpectedLine(item) ==
  <<"*", " ">> \o item.k \o <<" ">>
    \o join(<<",">>, [i \in DOMAIN item.v |-> strip(item.v[i])]) \o <<"\n">>

Printed == pc \in {"printed", "parsed_back", "raised_back"}

\* C6: print_usermap_to_file writes exactly one line per identity, in
\* ascending order of the identity strings, each with the identity's groups
\* in list order; maps that differ only in insertion order give the same text.
C6_SortedLinesInListOrder ==
  Printed =>
    LET m == osguser_groups_merged
        n == Len(osguser_groups_merged)
    IN /\ \E p \in Perms(n) :
            /\ \A i \in 1..(n - 1) : str_lt(m[p[i]].k, m[p[i + 1]].k)
            /\ files.outfile = Concat([i \in 1..n |-> ExpectedLine(m[p[i]])])
       /\ \A q \in Perms(n) : print_usermap_to_file(Permuted(m, q)) = files.outfile

C6_Witness ==
  /\ pc = "printed"
  /\ Len(osguser_groups_merged) >= 2
  /\ str_lt(osguser_groups_merged[2].k, osguser_groups_merged[1].k)
  /\ osguser_groups_merged[1].v = <<<<"b">>, <<"a">>>>
  /\ files.outfile # print_items(osguser_groups_merged)

\* the lines parse_localmap takes: three fields, the first the marker
WellFormed(line) ==
  LET fields == split(strip(line), 2) IN Len(fields) = 3 /\ fields[1] = <<"*">>

\* C7: for every readable file parse_localmap returns normally, and returns
\* what the well-formed lines alone give: lines with a wrong marker, with
\* fewer than three fields, blank or of whitespace only are skipped.
C7_MalformedLinesSkipped ==
  (pc \in {"returned", "raised"} /\ file.exists) =>
    /\ pc = "returned"
    /\ maps[1] = parse_lines(SelectSeq(readlines(file.text), WellFormed), <<>>).value

HasNoSpace(name) == \A i \in DOMAIN name : ~isspace(name[i])

\* the maps C10 is about
RoundTripDomain(m) ==
  \A i \in DOMAIN m :
    /\ m[i].k # <<>> /\ HasNoSpace(m[i].k)
    /\ m[i].v # <<>> /\ NoDuplicates(m[i].v)
    /\ \A g \in Range(m[i].v) : g # <<>> /\ HasNoSpace(g) /\ "," \notin Range(g)

SameDict(a, b) ==
  /\ Len(a) = Len(b)
  /\ keys(a) = keys(b)
  /\ \A u \in keys(a) : getitem(a, u) = getitem(b, u)

\* C10: for a map of non-empty identities without whitespace and non-empty
\* duplicate-free lists of non-empty group names without whitespace or
\* comma, parse_localmap of the text print_usermap_to_file writes returns
\* the same identities with the same group sequences.
C10_RoundTrip ==
  (pc \in {"parsed_back", "raised_back"} /\ RoundTripDomain(osguser_groups_merged)) =>
    /\ pc = "parsed_back"
    /\ SameDict(maps[1], osguser_groups_merged)

C10_Witness ==
  /\ pc = "parsed_back"
  /\ RoundTripDomain(osguser_groups_merged)
  /\ Len(osguser_groups_merged) = 2
  /\ osguser_groups_merged[1].v = <<<<"b">>, <<"a">>>>
  /\ SameDict(maps[1], osguser_groups_merged)

\* the states of the cache file that are to count as a miss at time t
CacheProblem(c, t) ==
  \/ ~c.exists
  \/ ~c.readable
  \/ readlines(c.text) = <<>>
  \/ float(readlines(c.text)[1]).raised # ""
  \/ float(readlines(c.text)[1]).value < t - CacheLifetime
  \/ \E i \in 2..Len(readlines(c.text)) :
       LET pair == split_colon(readlines(c.text)[i])
       IN Len(pair) = 2 /\ int(pair[1]).raised # ""

\* C9: whatever is wrong with the cache file when get_co_api_data starts
\* (absent, unreadable, empty, stale, first line not a number, identifier
\* not an integer, also as an earlier failed refresh left it), the call
\* asks the registry, overwrites the cache with the time and the entries
\* and returns them, provided the registry answers.
C9_CacheProblemIsMiss ==
  (call.done /\ CacheProblem(call.before, call.at) /\ call.api.ok) =>
    /\ call.raised = ""
    /\ call.live
    /\ call.value = call.api.data
    /\ cache.text = str(call.at) \o <<"\n">> \o entry_lines(call.api.data)

==========================================================================
